---- MODULE Spec2Model ----
(***************************************************************************)
(* Quiz engine of the LMS backend (src/services/quiz_service.py): the      *)
(* submission processor, the per-topic progress updater, the streak        *)
(* updater and the achievement checker, running over a SQLAlchemy session  *)
(* created by sessionmaker(autocommit=False, autoflush=False)              *)
(* (src/database.py:31).                                                   *)
(*                                                                         *)
(* The three tables quiz_attempts, user_progress and achievements are      *)
(* sequences of rows (a row's id is its index).  A session is a record of  *)
(* pending inserts and of in-memory changes to loaded rows.  Because the   *)
(* session does not autoflush, every query inside a unit of work sees the  *)
(* tables only, never the session's pending rows.                          *)
(* Time is the UTC calendar day, a counter.  Columns no operation reads    *)
(* back (titles, icons, last_activity, earned_date) are left out.          *)
(*                                                                         *)
(* The read-only operations of the service have their own specifications:  *)
(* the weak-topic detector over a database with a history of attempts      *)
(* (SpecWeak), the adaptive quiz generator over a questions table          *)
(* (SpecQuiz) and the AI question synthesizer over the answers of the AI   *)
(* service (SpecAi).                                                       *)
(***************************************************************************)
EXTENDS Integers, Sequences, FiniteSets, TLC

VARIABLES day, attempts, progress, achievements, calls, last, sess, pc,
          pool, resp, ret,
          chat, ai_calls, txn,
          active_connections, user_sessions, socks, sender, delivered

vars == <<day, attempts, progress, achievements, calls, last, sess, pc,
          pool, resp, ret,
          chat, ai_calls, txn,
          active_connections, user_sessions, socks, sender, delivered>>

\* The variables of the submission processor.
quiz == <<day, attempts, progress, achievements, calls, last, sess, pc>>

\* What the read-only operations work on: the questions table, the answer of
\* the AI service, and the value the last read-only call returned.
reads == <<pool, resp, ret>>

tables == <<attempts, progress, achievements>>

\* The chat_sessions table and the number of calls made to the AI service.
documents == <<chat, ai_calls>>

\* The connection manager (src/services/realtime_service.py), the websocket
\* endpoints, the task that is sending and the websockets whose client received its
\* announcement.
realtime == <<active_connections, user_sessions, socks, sender, delivered>>

\* What the operations of the quiz engine on one session leave alone.
others == <<documents, txn, realtime>>

(* ------------------------------ bounds --------------------------------- *)

\* Last calendar day the clock reaches (days are 0..MaxDay).
MaxDay == 3

\* Number of submit_quiz_results calls that commit in a behaviour.
MaxSubmits == 3

\* Number of _check_achievements calls inside one unit of work (SpecUow).
MaxChecks == 2

\* Number of units of work in a behaviour of SpecUow.
MaxUnits == 3

\* Largest number of attempts per topic in a user's history (SpecWeak).
MaxTopicAttempts == 10

\* Largest number of elements in the array the AI service returns (SpecAi).
MaxItems == 6

\* Number of websockets opened in a behaviour (SpecRealtime).
MaxSockets == 2

\* Number of submissions before the dashboard is requested (SpecDash).
MaxDashSubmits == 2

\* Number of submissions begun in a behaviour of SpecConc.
MaxRequests == 2

\* Largest number of rows in chat_sessions (SpecPdf).
MaxChats == 2

\* Largest number of elements in the array the AI service returns (SpecPdf).
MaxPdfItems == 1

(* ------------------------- program constants --------------------------- *)

\* self.questions_per_quiz: a served quiz has 5 questions, so a submission
\* answers at most 5.
questions_per_quiz == 5

\* The perfect_score rule's floor on total_count.
PerfectMin == 5

\* The weak-topic query keeps topics with at least 3 attempts.
MinTopicAttempts == 3

\* The default of the limit parameter of _get_weak_topics.
WeakLimit == 3

Users == {1, 2}

\* The Question table: id -> topic.  Id 3 is an id with no Question row.
QuestionTopic == (1 :> "mathematics") @@ (2 :> "general")

NoQuestionId == CHOOSE q \in {3} : q \notin DOMAIN QuestionTopic

Topics == {QuestionTopic[q] : q \in DOMAIN QuestionTopic}

AchievementTypes == {"perfect_score", "first_quiz"}

\* Question rows a questions table is made of (id, topic, difficulty), with
\* the topics and difficulties of src/seed_data.py.  Rows 1 and 2 are the
\* questions of QuestionTopic.
QuestionBank ==
    {[id |-> 1, topic |-> "mathematics", difficulty |-> "medium"],
     [id |-> 2, topic |-> "general", difficulty |-> "medium"],
     [id |-> 4, topic |-> "science", difficulty |-> "easy"],
     [id |-> 5, topic |-> "history", difficulty |-> "easy"],
     [id |-> 6, topic |-> "history", difficulty |-> "medium"],
     [id |-> 7, topic |-> "physics", difficulty |-> "easy"],
     [id |-> 8, topic |-> "physics", difficulty |-> "medium"]}

\* The questions table the submissions above refer to.
SeedPool == {q \in QuestionBank : q.id \in DOMAIN QuestionTopic}

\* The difficulty argument of GET /api/quiz (src/main.py:319); "" stands
\* for None, which like the empty string applies no filter.
DifficultyArgs == {"", "easy", "medium", "hard"}

\* No read-only call has returned yet.
NoReturn == [op |-> "none"]

\* The AI service has not been called.
NoResponse == [kind |-> "none"]

\* The two database sessions of two overlapping requests.
Sessions == {1, 2}

\* A session no request is using.
IdleTxn == [pc |-> "idle"]

\* The websockets clients open during a behaviour.
Sockets == 1..MaxSockets

\* A websocket no client has opened yet.
FreshSocket == [pc |-> "fresh", user |-> 0, client |-> "open", at |-> "none"]

\* No task is sending.
NoSender == [pc |-> "none"]

\* No chat session, no call to the AI service yet.
NoDocuments == chat = <<>> /\ ai_calls = 0

\* Both sessions are idle.
NoTransactions == txn = [i \in Sessions |-> IdleTxn]

\* The connection manager as constructed (lines 15-19), no websocket opened.
NoRealtime ==
    /\ active_connections = <<>>
    /\ user_sessions = <<>>
    /\ socks = [w \in Sockets |-> FreshSocket]
    /\ sender = NoSender
    /\ delivered = {}

(* ------------------------ submissions (inputs) ------------------------- *)

\* The question id of answer i of n under a layout.
LayoutQuestion(lay, i, n) ==
    CASE lay = "mathematics" -> 1
      [] lay = "general" -> 2
      [] lay = "mixed" -> IF i = 1 THEN 2 ELSE 1
      [] lay = "unknown" -> IF i = n THEN NoQuestionId ELSE 1

\* A request body's answers: n answers, the first k of them correct.
MkAnswers(n, k, lay) ==
    [i \in 1..n |-> [questionId |-> LayoutQuestion(lay, i, n), isCorrect |-> i <= k]]

\* The request bodies the clients send: <<n, k, layout>> is n answers of
\* which the first k are correct.  They cover a perfect quiz over two topics,
\* a quiz with one wrong answer, an all-correct quiz shorter than the
\* perfect_score floor, and a quiz with an answer to a question that does
\* not exist.
SubmissionShapes ==
    {<<questions_per_quiz, questions_per_quiz, "mixed">>,
     <<questions_per_quiz, questions_per_quiz - 1, "mathematics">>,
     <<1, 1, "general">>,
     <<questions_per_quiz, questions_per_quiz, "unknown">>}

AnswerLists == {MkAnswers(sh[1], sh[2], sh[3]) : sh \in SubmissionShapes}

\* The request bodies whose question ids all exist.
WellFormedLists ==
    {a \in AnswerLists : \A i \in DOMAIN a : a[i].questionId \in DOMAIN QuestionTopic}

(* ------------------------------ session -------------------------------- *)

\* A fresh session: nothing pending, no row loaded.
EmptySession == [att |-> <<>>, prog |-> <<>>, ach |-> <<>>, dirty |-> <<>>]

\* The object the session holds for progress row r: the loaded object with
\* its in-memory changes, or the row as stored.
Obj(s, r) == IF r \in DOMAIN s.dirty THEN s.dirty[r] ELSE progress[r]

(* ------------------------- submit_quiz_results ------------------------- *)

\* correct_count of lines 375-382.
CorrectCount(answers) == Cardinality({i \in DOMAIN answers : answers[i].isCorrect})

AddAttemptsCorrectOnly(s, u, answers) ==
    LET kept == SelectSeq(answers, LAMBDA a : a.isCorrect)
    IN [s EXCEPT !.att = @ \o [i \in 1..Len(kept) |->
           [user_id |-> u, question_id |-> kept[i].questionId,
            is_correct |-> TRUE, day |-> day]]]

\* Lines 377-391: one pending QuizAttempt per answer.
AddAttempts(s, u, answers) ==
    [s EXCEPT !.att = @ \o [i \in 1..Len(answers) |->
        [user_id |-> u, question_id |-> answers[i].questionId,
         is_correct |-> answers[i].isCorrect, day |-> day]]]

\* Lines 414-425: answers whose question resolves, bucketed by topic.
Resolved(answers) == {i \in DOMAIN answers : answers[i].questionId \in DOMAIN QuestionTopic}

StatTopics(answers) == {QuestionTopic[answers[i].questionId] : i \in Resolved(answers)}

TopicStatsMixedUp(answers) ==
    [t \in StatTopics(answers) |->
        [total |-> Cardinality({i \in Resolved(answers) :
                                  QuestionTopic[answers[i].questionId] = t}),
         correct |-> CorrectCount(answers)]]

TopicStats(answers) ==
    [t \in StatTopics(answers) |->
        [total |-> Cardinality({i \in Resolved(answers) :
                                  QuestionTopic[answers[i].questionId] = t}),
         correct |-> Cardinality({i \in Resolved(answers) :
                                  /\ QuestionTopic[answers[i].questionId] = t
                                  /\ answers[i].isCorrect})]]

\* The topics of topic_stats in dict order (first occurrence in answers).
RECURSIVE TopicOrder(_, _)
TopicOrder(answers, i) ==
    IF i = 0 THEN <<>>
    ELSE LET before == TopicOrder(answers, i - 1)
             q == answers[i].questionId
         IN IF q \in DOMAIN QuestionTopic
               /\ \A j \in DOMAIN before : before[j] # QuestionTopic[q]
            THEN Append(before, QuestionTopic[q])
            ELSE before

\* Rows the query of lines 429-432 matches (stored rows only).
ProgressMatches(u, t) ==
    {r \in DOMAIN progress : progress[r].user_id = u /\ progress[r].topic = t}

\* Rows the query of lines 469-471 (and 669-671) matches.
UserRows(u) == {r \in DOMAIN progress : progress[r].user_id = u}

\* .first() of a query with no ORDER BY returns any one matching row, or
\* None (0) when none matches.  pk[t] is the row returned for topic t.
FirstOf(rows) == IF rows = {} THEN {0} ELSE rows

PickRange(u, answers, t) ==
    IF t \in StatTopics(answers) THEN FirstOf(ProgressMatches(u, t)) ELSE {0}

Picks(u, answers) ==
    {pk \in [Topics -> UNION {PickRange(u, answers, t) : t \in Topics}] :
        \A t \in Topics : pk[t] \in PickRange(u, answers, t)}

\* Lines 463-466: an Attempt of the user dated yesterday.
YesterdayActivity(u) ==
    \E i \in DOMAIN attempts : attempts[i].user_id = u /\ attempts[i].day = day - 1

NewBestOverwrite(o, sd) == sd

NewBestFrozen(o, sd) == o.best_streak

\* Lines 489-491: best_streak is a high-water mark.
NewBest(o, sd) == IF sd > o.best_streak THEN sd ELSE o.best_streak

NewStreakAlwaysIncrement(o, yesterday) == o.streak_days + 1

\* Lines 482-487.
NewStreak(o, yesterday) == IF yesterday THEN o.streak_days + 1 ELSE 1

\* _update_streak, lines 454-494; sp is the row .first() returned.
UpdateStreak(s, u, sp) ==
    IF sp = 0
    THEN [s EXCEPT !.prog = Append(@,
            [user_id |-> u, topic |-> "general", total_questions |-> 0,
             correct_answers |-> 0, streak_days |-> 1, best_streak |-> 1])]
    ELSE LET o == Obj(s, sp)
             sd == NewStreak(o, YesterdayActivity(u))
         IN [s EXCEPT !.dirty = (sp :> [o EXCEPT !.streak_days = sd,
                                                 !.best_streak = NewBest(o, sd)]) @@ @]

\* Lines 428-446: create-if-absent, else add the counts.
UpdateTopics(s, u, answers, pk) ==
    LET stats == TopicStats(answers)
        order == TopicOrder(answers, Len(answers))
        hit == {t \in DOMAIN stats : pk[t] # 0}
        upd == [r \in {pk[t] : t \in hit} |->
                  LET t == progress[r].topic
                  IN [Obj(s, r) EXCEPT !.total_questions = @ + stats[t].total,
                                       !.correct_answers = @ + stats[t].correct]]
        missT == SelectSeq(order, LAMBDA t : pk[t] = 0)
        new == [j \in 1..Len(missT) |->
                  [user_id |-> u, topic |-> missT[j],
                   total_questions |-> stats[missT[j]].total,
                   correct_answers |-> stats[missT[j]].correct,
                   streak_days |-> 0, best_streak |-> 0]]
    IN [s EXCEPT !.dirty = upd @@ @, !.prog = @ \o new]

\* _update_user_progress, lines 406-452.  An exception anywhere in the body
\* is caught at 451 and only printed; fault names where one is raised.
UpdateUserProgress(s, u, answers, pk, sp, fault) ==
    IF fault = "progress" THEN s
    ELSE LET s1 == UpdateTopics(s, u, answers, pk)
         IN IF fault = "streak" THEN s1 ELSE UpdateStreak(s1, u, sp)

\* Lines 528-531: the existence query (stored rows only).
Existing(u, type) ==
    \E i \in DOMAIN achievements :
        achievements[i].user_id = u /\ achievements[i].achievement_type = type

\* Lines 513-515.
PreviousAttempts(u) == Cardinality({i \in DOMAIN attempts : attempts[i].user_id = u})

PerfectWithoutFloor(correct, total) == correct = total

\* Line 504.
Perfect(correct, total) == correct = total /\ total >= PerfectMin

\* Lines 501-523: achievements_to_award.
ToAward(u, correct, total) ==
    (IF Perfect(correct, total) THEN <<"perfect_score">> ELSE <<>>)
    \o (IF PreviousAttempts(u) <= total THEN <<"first_quiz">> ELSE <<>>)

AlwaysInsert(u, type) == TRUE

\* Line 533: insert only when the existence query found nothing.
ShouldInsert(u, type) == ~Existing(u, type)

\* _check_achievements, lines 496-545.
CheckAchievements(s, u, correct, total) ==
    LET give == SelectSeq(ToAward(u, correct, total), LAMBDA t : ShouldInsert(u, t))
    IN [s EXCEPT !.ach = @ \o [j \in 1..Len(give) |->
                                 [user_id |-> u, achievement_type |-> give[j]]]]

\* db.commit() flushes the pending rows; quiz_attempts.question_id is a
\* NOT NULL foreign key to questions.id (src/models.py:157), so a pending
\* attempt whose question does not exist makes the flush raise.
FlushFails(s) == \E i \in DOMAIN s.att : s.att[i].question_id \notin DOMAIN QuestionTopic

FlushedProgress(s) == [r \in DOMAIN progress |-> Obj(s, r)] \o s.prog

NoCall == [op |-> "none", user |-> 0, total |-> 0, correct |-> 0, raised |-> FALSE,
           fault |-> "none", firstEver |-> FALSE, streakRow |-> 0, skipped |-> {},
           topics |-> {}, checks |-> 0, qualifying |-> 0, unresolved |-> 0]

\* The bookkeeping of one call, for the properties below.
CallRecord(u, answers, sp, fault, raised, newRows) ==
    [op |-> "submit", user |-> u, total |-> Len(answers),
     correct |-> CorrectCount(answers), raised |-> raised, fault |-> fault,
     firstEver |-> PreviousAttempts(u) = 0,
     streakRow |-> IF fault \in {"progress", "streak"} THEN 0
                   ELSE IF sp # 0 THEN sp ELSE Len(progress) + newRows,
     skipped |-> IF fault = "achievements" THEN {}
                 ELSE LET give == ToAward(u, CorrectCount(answers), Len(answers))
                      IN {t \in AchievementTypes :
                            Existing(u, t) /\ \E j \in DOMAIN give : give[j] = t},
     topics |-> StatTopics(answers), checks |-> 0, qualifying |-> 0,
     unresolved |-> Len(answers) - Cardinality(Resolved(answers))]

\* submit_quiz_results, lines 370-404, as one call on a fresh session.
Submit(u, answers, pk, sp, fault) ==
    /\ pc = "closed"
    /\ calls < MaxSubmits
    /\ pk \in Picks(u, answers)
    /\ sp \in FirstOf(UserRows(u))
    /\ \E s1 \in {AddAttempts(EmptySession, u, answers)} :
       \E s2 \in {UpdateUserProgress(s1, u, answers, pk, sp, fault)} :
       \E s3 \in {IF fault = "achievements" THEN s2
                   ELSE CheckAchievements(s2, u, CorrectCount(answers), Len(answers))} :
       \E raised \in {fault = "commit" \/ FlushFails(s3)} :
          /\ IF raised
             THEN \* line 403: db.rollback()
                  UNCHANGED tables
             ELSE \* line 399: db.commit()
                  /\ attempts' = attempts \o s3.att
                  /\ progress' = FlushedProgress(s3)
                  /\ achievements' = achievements \o s3.ach
          /\ calls' = IF raised THEN calls ELSE calls + 1
          /\ last' = CallRecord(u, answers, sp, fault, raised, Len(s2.prog))
    /\ UNCHANGED <<day, sess, pc>>
    /\ UNCHANGED <<reads, others>>

\* Midnight UTC.
Tick ==
    /\ pc = "closed"
    /\ day < MaxDay
    /\ day' = day + 1
    /\ last' = NoCall
    /\ UNCHANGED <<attempts, progress, achievements, calls, sess, pc>>
    /\ UNCHANGED <<reads, others>>

Init ==
    /\ day = 0
    /\ attempts = <<>>
    /\ progress = <<>>
    /\ achievements = <<>>
    /\ calls = 0
    /\ last = NoCall
    /\ sess = EmptySession
    /\ pc = "closed"
    /\ pool = SeedPool
    /\ resp = NoResponse
    /\ ret = NoReturn
    /\ NoDocuments /\ NoTransactions /\ NoRealtime

\* Requests for questions that exist, with no failure of the database.
\* The code treats all users alike, so the behaviours in which user 1 is the
\* first to have a submission committed stand for all of them.
Submitters == IF attempts = <<>> THEN {1} ELSE Users

SubmitCall ==
    /\ calls < MaxSubmits
    /\ \E u \in Submitters, answers \in WellFormedLists :
          \E pk \in Picks(u, answers), sp \in FirstOf(UserRows(u)) :
              Submit(u, answers, pk, sp, "none")

Next == SubmitCall \/ Tick

Spec == Init /\ [][Next]_vars

(* ------------------- submissions under failures ------------------------ *)

\* Where an exception is raised during a call.  "progress", "streak" and
\* "achievements" are exceptions raised inside _update_user_progress (before
\* its first write), _update_streak and _check_achievements that leave the
\* session usable; each is caught by the helper's own handler (lines 451,
\* 493, 544).  "commit" is an exception in the body of submit_quiz_results
\* or in db.commit(), which includes every failure that aborts the
\* database transaction; it reaches the handler of lines 401-404.
Faults == {"none", "progress", "streak", "achievements", "commit"}

FaultySubmitCall ==
    /\ calls < MaxSubmits
    /\ \E u \in Submitters, answers \in AnswerLists, fault \in Faults :
          \E pk \in Picks(u, answers), sp \in FirstOf(UserRows(u)) :
              Submit(u, answers, pk, sp, fault)

NextFault == FaultySubmitCall

SpecFault == Init /\ [][NextFault]_vars

(* ------------- the achievement checker inside a unit of work ----------- *)

\* The (correct_count, total_count) pairs of the request bodies above.
CheckInputs == {<<sh[2], sh[1]>> : sh \in SubmissionShapes}

\* A request opens a session (src/database.py:37-42).
UowBegin(u) ==
    /\ pc = "closed"
    /\ calls < MaxUnits
    /\ pc' = "open"
    /\ sess' = EmptySession
    /\ last' = [NoCall EXCEPT !.op = "unit", !.user = u]
    /\ UNCHANGED <<day, attempts, progress, achievements, calls>>
    /\ UNCHANGED <<reads, others>>

\* One call of _check_achievements on the open session.
UowCheck(correct, total) ==
    /\ pc = "open"
    /\ last.checks < MaxChecks
    /\ sess' = CheckAchievements(sess, last.user, correct, total)
    /\ last' = [last EXCEPT !.checks = @ + 1, !.correct = correct, !.total = total,
                            !.qualifying = @ + (IF Perfect(correct, total) THEN 1 ELSE 0)]
    /\ UNCHANGED <<day, attempts, progress, achievements, calls, pc>>
    /\ UNCHANGED <<reads, others>>

\* db.commit(): the pending rows are inserted.
UowCommit ==
    /\ pc = "open"
    /\ attempts' = attempts \o sess.att
    /\ progress' = FlushedProgress(sess)
    /\ achievements' = achievements \o sess.ach
    /\ sess' = EmptySession
    /\ pc' = "closed"
    /\ calls' = calls + 1
    /\ last' = [last EXCEPT !.op = "committed"]
    /\ UNCHANGED day
    /\ UNCHANGED <<reads, others>>

\* db.rollback(): the pending rows are dropped.
UowRollback ==
    /\ pc = "open"
    /\ sess' = EmptySession
    /\ pc' = "closed"
    /\ calls' = calls + 1
    /\ last' = [last EXCEPT !.op = "rolledback"]
    /\ UNCHANGED <<day, attempts, progress, achievements>>
    /\ UNCHANGED <<reads, others>>

NextUow ==
    \/ \E u \in Users : UowBegin(u)
    \/ \E in \in CheckInputs : UowCheck(in[1], in[2])
    \/ UowCommit
    \/ UowRollback

SpecUow == Init /\ [][NextUow]_vars

(* ------------------------ the weak-topic detector ---------------------- *)

Range(f) == {f[i] : i \in DOMAIN f}

\* Lines 294-298: the user's attempts joined to the question they answered,
\* for the questions of topic t.
TopicAttempts(u, t) ==
    {i \in DOMAIN attempts :
        /\ attempts[i].user_id = u
        /\ \E q \in pool : q.id = attempts[i].question_id /\ q.topic = t}

\* Lines 290-302: one row (topic, total, correct) per topic with at least
\* three attempts of the user.
TopicStatRows(u) ==
    {[topic |-> t,
      total |-> Cardinality(TopicAttempts(u, t)),
      correct |-> Cardinality({i \in TopicAttempts(u, t) : attempts[i].is_correct})] :
        t \in {x \in {q.topic : q \in pool} :
                 Cardinality(TopicAttempts(u, x)) >= MinTopicAttempts}}

\* Lines 306-307: accuracy = correct / total < 0.7, in whole numbers.
IsWeak(row) == 10 * row.correct < 7 * row.total

\* Line 311: the orders list.sort leaves the rows in, ascending by accuracy;
\* rows of equal accuracy keep the order the query returned them in, which
\* GROUP BY does not fix.
SortedByAccuracy(rows) ==
    {s \in [1..Cardinality(rows) -> rows] :
        /\ \A i, j \in DOMAIN s : i # j => s[i] # s[j]
        /\ \A i, j \in DOMAIN s :
              i < j => s[i].correct * s[j].total <= s[j].correct * s[i].total}

\* Line 312: the topic names of the first limit rows.
TopicNames(s, limit) ==
    [i \in 1..(IF Len(s) < limit THEN Len(s) ELSE limit) |-> s[i].topic]

\* Line 293 reads db.bind.dialect.INTEGER while it builds the query.  db.bind
\* is the Engine of src/database.py:23 and the dialect object of an Engine
\* has no attribute INTEGER (SQLAlchemy keeps its types in modules, and
\* line 4 imports Integer without using it), so the read raises
\* AttributeError inside the try of line 288, before any query runs.
DialectHasInteger == FALSE

GetWeakTopicsUnfiltered(u, limit) ==
    {<<q.topic>> : q \in pool}

\* _get_weak_topics, lines 284-317: the values it can return.
GetWeakTopics(u, limit) ==
    IF DialectHasInteger
    THEN {TopicNames(s, limit) :
            s \in SortedByAccuracy({r \in TopicStatRows(u) : IsWeak(r)})}
    ELSE \* lines 315-317
         {<<>>}

\* n attempts of user u on question q, the first c of them correct.
Block(u, q, n, c) ==
    [i \in 1..n |-> [user_id |-> u, question_id |-> q, is_correct |-> i <= c, day |-> 0]]

\* The user_progress row those attempts leave behind.
BlockProgress(u, q, n, c, first) ==
    IF n = 0 THEN <<>>
    ELSE <<[user_id |-> u, topic |-> QuestionTopic[q], total_questions |-> n,
            correct_answers |-> c, streak_days |-> IF first THEN 1 ELSE 0,
            best_streak |-> IF first THEN 1 ELSE 0]>>

\* Histories of user 1: <<n1, c1, n2, c2>> is n1 attempts on question 1 with
\* c1 correct and n2 attempts on question 2 with c2 correct.
Histories(max) ==
    {<<n1, c1, n2, c2>> : n1 \in 0..max, c1 \in 0..max, n2 \in 0..max, c2 \in 0..max}

\* A database after a day of submissions: user 1 has the history h, user 2
\* has three wrong answers to question 1.
InitWeak ==
    /\ \E h \in Histories(MaxTopicAttempts) :
          /\ h[2] <= h[1] /\ h[4] <= h[3]
          /\ attempts = Block(1, 1, h[1], h[2]) \o Block(1, 2, h[3], h[4])
                            \o Block(2, 1, MinTopicAttempts, 0)
          /\ progress = BlockProgress(1, 1, h[1], h[2], TRUE)
                            \o BlockProgress(1, 2, h[3], h[4], h[1] = 0)
                            \o BlockProgress(2, 1, MinTopicAttempts, 0, TRUE)
          /\ achievements =
                (IF h[1] + h[3] > 0
                 THEN <<[user_id |-> 1, achievement_type |-> "first_quiz"]>> ELSE <<>>)
                \o <<[user_id |-> 2, achievement_type |-> "first_quiz"]>>
    /\ day = 0
    /\ calls = 0
    /\ last = NoCall
    /\ sess = EmptySession
    /\ pc = "closed"
    /\ pool = SeedPool
    /\ resp = NoResponse
    /\ ret = NoReturn
    /\ NoDocuments /\ NoTransactions /\ NoRealtime

\* One call of _get_weak_topics.
WeakTopicsCall(u, limit) ==
    /\ pc = "closed"
    /\ \E r \in GetWeakTopics(u, limit) :
          ret' = [op |-> "weak", user |-> u, limit |-> limit, result |-> r]
    /\ UNCHANGED <<day, attempts, progress, achievements, calls, last, sess, pc,
                   pool, resp>>
    /\ UNCHANGED others

NextWeak == \E u \in Users, limit \in 1..WeakLimit : WeakTopicsCall(u, limit)

SpecWeak == InitWeak /\ [][NextWeak]_vars

(* --------------------------- the quiz generator ------------------------ *)

\* Line 26: the topics used when the detector returns no weak topic.
DefaultTopics == {"mathematics", "science", "programming", "general"}

\* Line 31: int(self.questions_per_quiz * 0.7).
weak_questions_count == (questions_per_quiz * 7) \div 10

\* Lines 326-327 and 348-349: "if difficulty:" applies the filter.
DifficultyOk(q, difficulty) == difficulty = "" \/ q.difficulty = difficulty

\* order_by(func.random()).limit(count).all(): any count of the candidate
\* rows (all of them when there are fewer), in any order, no row twice.
Samples(cands, count) ==
    LET n == IF Cardinality(cands) < count THEN Cardinality(cands) ELSE count
    IN {s \in [1..n -> cands] : \A i, j \in 1..n : i # j => s[i] # s[j]}

\* _format_question, lines 358-368 (the text columns are left out).
FormatQuestion(q) == [id |-> q.id, topic |-> q.topic]

\* How a call ends: it returns val, or an exception leaves it.
Returned(v) == [exc |-> FALSE, val |-> v]

Raising == [exc |-> TRUE, val |-> <<>>]

\* Where an exception is raised during generate_adaptive_quiz: inside
\* _get_questions_by_topics, inside _get_random_questions, or in the body of
\* generate_adaptive_quiz itself.
QuizFaults == {"none", "topics", "random", "body"}

\* _get_questions_by_topics, lines 319-335; its handler returns [].
GetQuestionsByTopics(topics, count, difficulty, fails) ==
    IF fails THEN {Returned(<<>>)}
    ELSE {Returned([i \in DOMAIN s |-> FormatQuestion(s[i])]) :
            s \in Samples({q \in pool : q.topic \in topics /\ DifficultyOk(q, difficulty)},
                          count)}

GetRandomQuestionsNoExclude(count, exclude_ids, difficulty, fails) ==
    IF fails THEN {Returned(<<>>)}
    ELSE {Returned([i \in DOMAIN s |-> FormatQuestion(s[i])]) :
            s \in Samples({q \in pool : DifficultyOk(q, difficulty)}, count)}

GetRandomQuestionsReraise(count, exclude_ids, difficulty, fails) ==
    IF fails THEN {Raising}
    ELSE {Returned([i \in DOMAIN s |-> FormatQuestion(s[i])]) :
            s \in Samples({q \in pool :
                             /\ exclude_ids = <<>> \/ q.id \notin Range(exclude_ids)
                             /\ DifficultyOk(q, difficulty)}, count)}

\* _get_random_questions, lines 337-356; "if exclude_ids:" skips the filter
\* for an empty list, and the handler returns [].
GetRandomQuestions(count, exclude_ids, difficulty, fails) ==
    IF fails THEN {Returned(<<>>)}
    ELSE {Returned([i \in DOMAIN s |-> FormatQuestion(s[i])]) :
            s \in Samples({q \in pool :
                             /\ exclude_ids = <<>> \/ q.id \notin Range(exclude_ids)
                             /\ DifficultyOk(q, difficulty)}, count)}

\* Line 41: random.shuffle.
Shuffles(seq) == {[i \in DOMAIN seq |-> seq[p[i]]] : p \in Permutations(DOMAIN seq)}

\* Line 43: questions[:self.questions_per_quiz].
Take(seq, n) == SubSeq(seq, 1, IF Len(seq) < n THEN Len(seq) ELSE n)

\* Lines 28-43, for the topics of lines 22-26.
Compose(topics, difficulty, fault) ==
    UNION {IF w.exc THEN {Raising}
           ELSE UNION {IF r.exc \/ fault = "body" THEN {Raising}
                       ELSE {Returned(Take(sh, questions_per_quiz)) :
                               sh \in Shuffles(w.val \o r.val)} :
                         r \in IF questions_per_quiz - Len(w.val) > 0
                               THEN GetRandomQuestions(questions_per_quiz - Len(w.val),
                                                       [i \in DOMAIN w.val |-> w.val[i].id],
                                                       difficulty, fault = "random")
                               ELSE {Returned(<<>>)}} :
             w \in GetQuestionsByTopics(topics, weak_questions_count, difficulty,
                                        fault = "topics")}

\* Lines 46-49: the handler of generate_adaptive_quiz.
Fallback(difficulty, fault) ==
    GetRandomQuestions(questions_per_quiz, <<>>, difficulty, fault = "random")

\* generate_adaptive_quiz, lines 16-49: the ways a call can end.
GenerateAdaptiveQuiz(u, difficulty, fault) ==
    UNION {UNION {IF b.exc THEN Fallback(difficulty, fault) ELSE {b} :
                    b \in Compose(IF weak = <<>> THEN DefaultTopics ELSE Range(weak),
                                  difficulty, fault)} :
             weak \in GetWeakTopics(u, WeakLimit)}

\* Any questions table made of rows of the bank, and no attempt yet.
InitQuiz ==
    /\ pool \in SUBSET QuestionBank
    /\ day = 0
    /\ attempts = <<>>
    /\ progress = <<>>
    /\ achievements = <<>>
    /\ calls = 0
    /\ last = NoCall
    /\ sess = EmptySession
    /\ pc = "closed"
    /\ resp = NoResponse
    /\ ret = NoReturn
    /\ NoDocuments /\ NoTransactions /\ NoRealtime

\* GET /api/quiz without a chat session (src/main.py:328).  The call reads
\* the tables and writes nothing, so a later call meets the database of the
\* first: a behaviour serves one request.
GenerateQuiz(u, difficulty, fault) ==
    /\ pc = "closed"
    /\ ret = NoReturn
    /\ \E o \in GenerateAdaptiveQuiz(u, difficulty, fault) :
          ret' = [op |-> "quiz", user |-> u, difficulty |-> difficulty, fault |-> fault,
                  raised |-> o.exc, result |-> o.val]
    /\ UNCHANGED <<day, attempts, progress, achievements, calls, last, sess, pc,
                   pool, resp>>
    /\ UNCHANGED others

NextQuiz ==
    \E u \in Submitters, difficulty \in DifficultyArgs, fault \in QuizFaults :
        GenerateQuiz(u, difficulty, fault)

SpecQuiz == InitQuiz /\ [][NextQuiz]_vars

(* ---------------------- the AI question synthesizer -------------------- *)

\* A JSON object, and a JSON value that is not an object.
Dict(d) == [isDict |-> TRUE, data |-> d]

NotDict == [isDict |-> FALSE, data |-> [value |-> "text"]]

\* A JSON array of n strings, and JSON null.
OptionList(n) == [type |-> "list", items |-> [j \in 1..n |-> "option"]]

Null == [type |-> "null", items |-> <<>>]

\* The question texts of the elements of a response, by position.
QuestionTexts == <<"q1", "q2", "q3", "q4", "q5", "q6", "q7", "q8">>

\* The elements the AI service answers with: one that follows the format
\* of the prompt (lines 134-142), one with a single option, one without
\* "topic", one with an empty question_text, one that is not an object and
\* one whose "options" is null.
ElementShapes ==
    {"valid", "one_option", "no_topic", "empty_text", "not_dict", "null_options"}

\* The element of a shape at position i of the array.
Element(shape, i) ==
    CASE shape = "valid" ->
           Dict([question_text |-> QuestionTexts[i], options |-> OptionList(4),
                 correct_answer |-> "option", topic |-> "Science"])
      [] shape = "one_option" ->
           Dict([question_text |-> QuestionTexts[i], options |-> OptionList(1),
                 correct_answer |-> "option", topic |-> "Science"])
      [] shape = "no_topic" ->
           Dict([question_text |-> QuestionTexts[i], options |-> OptionList(4),
                 correct_answer |-> "option"])
      [] shape = "empty_text" ->
           Dict([question_text |-> "", options |-> OptionList(4),
                 correct_answer |-> "option", topic |-> "Science"])
      [] shape = "not_dict" -> NotDict
      [] shape = "null_options" ->
           Dict([question_text |-> QuestionTexts[i], options |-> Null,
                 correct_answer |-> "option", topic |-> "Science"])

\* What get_response can do (src/services/gemini_service.py:50-102) and what
\* lines 156-180 make of its text: it raises; the text is empty; the text
\* has no "[...]" ("prose", or a JSON object such as {"error": 1}); the
\* bracketed part is not JSON; the bracketed part parses to an array.
\* The arrays have up to max elements.
Responses(max) ==
    {[kind |-> k, items |-> <<>>] : k \in {"raises", "empty", "prose", "object", "badjson"}}
    \cup {[kind |-> "array", items |-> [i \in DOMAIN sh |-> Element(sh[i], i)]] :
            sh \in UNION {[1..n -> ElementShapes] : n \in 0..max}}

\* _create_content_based_fallback, lines 243-282.
ContentBasedFallback ==
    <<[id |-> "content_fallback_1", topic |-> "Document Analysis",
       question_text |-> "What is the most effective way to understand a complex document?",
       correct_answer |-> "Read carefully and take notes on key concepts",
       options |-> OptionList(4)],
      [id |-> "content_fallback_2", topic |-> "Learning Strategy",
       question_text |-> "When studying from a PDF document, what should you do first?",
       correct_answer |-> "Review the summary and identify main topics",
       options |-> OptionList(4)],
      [id |-> "content_fallback_3", topic |-> "Comprehension",
       question_text |-> "How can you test your understanding of a document?",
       correct_answer |-> "Ask yourself questions about the content",
       options |-> OptionList(4)]>>

\* _create_fallback_questions, lines 226-241.
FallbackQuestions ==
    <<[id |-> "fallback_1", topic |-> "PDF Content",
       question_text |-> "Based on the document you uploaded, what was the main topic discussed?",
       correct_answer |-> "Please review the document summary",
       options |-> OptionList(4)]>>

\* dict.get(k, default).
Get(d, k, default) == IF k \in DOMAIN d THEN d[k] ELSE default

\* Line 195: f"ai_generated_{i}" for the positions 0..4 of the slice.
AiIds == <<"ai_generated_0", "ai_generated_1", "ai_generated_2", "ai_generated_3",
           "ai_generated_4">>

\* Lines 194-200: the question built from the object at position i.
FormatAi(d, i) ==
    [id |-> AiIds[i],
     topic |-> Get(d, "topic", "PDF Content"),
     question_text |-> Get(d, "question_text", ""),
     correct_answer |-> Get(d, "correct_answer", ""),
     options |-> Get(d, "options", OptionList(0))]

\* Lines 203-205; "and" evaluates len(options) only when both texts are
\* non-empty.
Keeps(q) ==
    q.question_text # "" /\ q.correct_answer # "" /\ Len(q.options.items) >= 2

\* len(None) at line 205 raises TypeError.
LenRaises(q) ==
    q.question_text # "" /\ q.correct_answer # "" /\ q.options.type # "list"

\* Line 190: questions_data[:self.questions_per_quiz].
Sliced(items) == SubSeq(items, 1, IF Len(items) < questions_per_quiz THEN Len(items)
                                  ELSE questions_per_quiz)

\* Lines 189-206: formatted_questions after the loop.
Formatted(items) ==
    LET sl == Sliced(items)
        kept == SelectSeq([i \in DOMAIN sl |-> i],
                          LAMBDA i : sl[i].isDict /\ Keeps(FormatAi(sl[i].data, i)))
    IN [j \in DOMAIN kept |-> FormatAi(sl[kept[j]].data, kept[j])]

\* The loop meets an object for which line 205 raises.
LoopRaises(items) ==
    \E i \in DOMAIN Sliced(items) :
        Sliced(items)[i].isDict /\ LenRaises(FormatAi(Sliced(items)[i].data, i))

\* _generate_ai_questions, lines 150-224.
GenerateAiQuestions(r) ==
    CASE r.kind = "raises" -> \* lines 222-224
           ContentBasedFallback
      [] r.kind = "empty" -> \* lines 159-161
           FallbackQuestions
      [] r.kind \in {"prose", "object"} -> \* lines 218-220
           ContentBasedFallback
      [] r.kind = "badjson" -> \* lines 214-216
           ContentBasedFallback
      [] r.kind = "array" ->
           IF LoopRaises(r.items) THEN \* lines 222-224
                ContentBasedFallback
           ELSE IF Formatted(r.items) # <<>> THEN Formatted(r.items) \* line 210
           ELSE \* line 213
                ContentBasedFallback

\* The AI service behaves in one of the ways of Responses.
InitAi ==
    /\ resp \in Responses(MaxItems)
    /\ day = 0
    /\ attempts = <<>>
    /\ progress = <<>>
    /\ achievements = <<>>
    /\ calls = 0
    /\ last = NoCall
    /\ sess = EmptySession
    /\ pc = "closed"
    /\ pool = SeedPool
    /\ ret = NoReturn
    /\ NoDocuments /\ NoTransactions /\ NoRealtime

\* One call of _generate_ai_questions (line 95).
AiCall ==
    /\ pc = "closed"
    /\ ret = NoReturn
    /\ ret' = [op |-> "ai", result |-> GenerateAiQuestions(resp)]
    /\ ai_calls' = ai_calls + 1
    /\ UNCHANGED <<day, attempts, progress, achievements, calls, last, sess, pc,
                   pool, resp>>
    /\ UNCHANGED <<chat, txn, realtime>>

NextAi == AiCall

SpecAi == InitAi /\ [][NextAi]_vars

(* ----------------------- the document-backed quiz ---------------------- *)

\* What a chat session is about: no document (pdf_document_id is NULL), a
\* document with a summary, or a document whose summary column is NULL
\* (src/models.py:216 allows it).
Docs == {"none", "summary", "nosummary"}

\* The rows chat_sessions is made of; a row's id is its index.
ChatRows == [user_id : Users, doc : Docs, last_activity : 0..1]

\* The requests below are user 1's: of another user's session only the owner
\* is read (line 68), so its other columns take one value.
ChatTables(max) ==
    UNION {{t \in [1..n -> ChatRows] :
              \A i \in 1..n : t[i].user_id # 1 => t[i].doc = "none" /\ t[i].last_activity = 0} :
             n \in 0..max}

\* The chat_session_id of the request; 0 stands for None, and "if not
\* chat_session_id" (line 59) treats the two alike.
ChatArgs == 0..MaxChats

\* Lines 59-69: the chat session the request is about, 0 for None.  Among
\* sessions of equal last_activity the database returns any.
FindChat(u, cid) ==
    IF cid = 0
    THEN LET mine == {i \in DOMAIN chat : chat[i].user_id = u}
         IN IF mine = {} THEN {0}
            ELSE {i \in mine : \A j \in mine :
                     chat[j].last_activity <= chat[i].last_activity}
    ELSE IF cid \in DOMAIN chat /\ chat[cid].user_id = u THEN {cid} ELSE {0}

\* Where an exception is raised during generate_pdf_based_quiz: in the
\* query of lines 61-69, or where generate_adaptive_quiz can meet one.
PdfFaults == QuizFaults \cup {"lookup"}

\* How a call ends, and how many times it called the AI service.
PdfOutcome(o, n) == [exc |-> o.exc, val |-> o.val, ai |-> n]

PdfHandlerReraise(u, fault) == {Raising}

\* Lines 100-105: the handler returns generate_adaptive_quiz(db, user_id).
PdfHandler(u, fault) == GenerateAdaptiveQuiz(u, "", fault)

\* Lines 55-98, for the chat session c.  Line 124 slices the summary, which
\* raises TypeError when it is None; line 95 awaits _generate_ai_questions,
\* which calls get_response once (line 155).
PdfBody(u, c, fault) ==
    IF fault = "lookup" THEN {PdfOutcome(Raising, 0)}
    ELSE IF c = 0 \/ chat[c].doc = "none" \* lines 73 and 77
         THEN {PdfOutcome(o, 0) : o \in GenerateAdaptiveQuiz(u, "", fault)}
    ELSE IF chat[c].doc = "nosummary" THEN {PdfOutcome(Raising, 0)}
    ELSE {PdfOutcome(Returned(GenerateAiQuestions(resp)), 1)}

\* generate_pdf_based_quiz, lines 51-105: the ways a call can end.
GeneratePdfBasedQuiz(u, cid, fault) ==
    UNION {UNION {IF b.exc THEN {PdfOutcome(o, b.ai) : o \in PdfHandler(u, fault)}
                  ELSE {b} :
                    b \in PdfBody(u, c, fault)} :
             c \in FindChat(u, cid)}

\* Any chat_sessions table, any behaviour of the AI service, no attempt yet.
InitPdf ==
    /\ chat \in ChatTables(MaxChats)
    /\ resp \in Responses(MaxPdfItems)
    /\ ai_calls = 0
    /\ day = 0
    /\ attempts = <<>>
    /\ progress = <<>>
    /\ achievements = <<>>
    /\ calls = 0
    /\ last = NoCall
    /\ sess = EmptySession
    /\ pc = "closed"
    /\ pool = SeedPool
    /\ ret = NoReturn
    /\ NoTransactions /\ NoRealtime

\* GET /api/quiz with a chat session (src/main.py:324-326), and the same
\* call without one.  A behaviour serves one request.
PdfQuiz(u, cid, fault) ==
    /\ pc = "closed"
    /\ ret = NoReturn
    /\ \E o \in GeneratePdfBasedQuiz(u, cid, fault) :
          /\ ret' = [op |-> "pdf", user |-> u, session |-> cid, fault |-> fault,
                     raised |-> o.exc, result |-> o.val]
          /\ ai_calls' = ai_calls + o.ai
    /\ UNCHANGED <<quiz, pool, resp, chat, txn, realtime>>

NextPdf ==
    \E u \in Submitters, cid \in ChatArgs, fault \in PdfFaults : PdfQuiz(u, cid, fault)

SpecPdf == InitPdf /\ [][NextPdf]_vars

(* ------------------------------ the dashboard -------------------------- *)

\* The range_str values of a request; "all" stands for every value the
\* chain of lines 553-560 does not name.
DashRanges == {"week", "month", "year", "all"}

\* Numbers of days that pass between a submission and the next request.
Gaps == {1, 2, 6, 30, 365}

\* Lines 553-560: timedelta(days=...).
Lookback(range) ==
    CASE range = "week" -> 7
      [] range = "month" -> 30
      [] range = "year" -> 365
      [] OTHER -> 7

StartDateYear(range) == day - 365

\* start_date of lines 552-560.
StartDate(range) == day - Lookback(range)

\* The filter of lines 563-566, 608-611 and 641-644: the user's attempts
\* dated start_date or later.
InRange(u, start) ==
    {i \in DOMAIN attempts : attempts[i].user_id = u /\ attempts[i].day >= start}

CountCorrect(rows) == Cardinality({i \in rows : attempts[i].is_correct})

\* int(correct / total * 100) of lines 574, 617 and 650; for the totals a
\* behaviour reaches, the float expression and this quotient agree.
Percent(correct, total) == IF total > 0 THEN (100 * correct) \div total ELSE 0

\* order_by('date'), line 613.
Ascending(S) ==
    CHOOSE s \in [1..Cardinality(S) -> S] : \A i, j \in 1..Cardinality(S) : i < j => s[i] < s[j]

\* _get_recent_activity, lines 598-628: one entry per date, oldest first; a
\* date stands for its isoformat string.
GetRecentActivity(u, start, fails) ==
    IF fails THEN <<>>
    ELSE LET rows == InRange(u, start)
             ord == Ascending({attempts[i].day : i \in rows})
         IN [k \in DOMAIN ord |->
               LET on == {i \in rows : attempts[i].day = ord[k]}
               IN [date |-> ord[k], score |-> Percent(CountCorrect(on), Cardinality(on)),
                   topic |-> "Mixed"]]

\* str.title() on the topics of the questions table (line 652).
Title(t) ==
    CASE t = "mathematics" -> "Mathematics"
      [] t = "general" -> "General"
      [] t = "science" -> "Science"
      [] t = "history" -> "History"
      [] t = "physics" -> "Physics"

\* _get_topic_performance, lines 630-662.  The query has no ORDER BY: the
\* entries come in any order, so the list is kept as the set of its entries.
GetTopicPerformance(u, start, fails) ==
    IF fails THEN {}
    ELSE LET rows == InRange(u, start)
             of(t) == {i \in rows : \E q \in pool : q.id = attempts[i].question_id /\ q.topic = t}
         IN {[topic |-> Title(t), correct |-> CountCorrect(of(t)),
              total |-> Cardinality(of(t)),
              percentage |-> Percent(CountCorrect(of(t)), Cardinality(of(t)))] :
               t \in {q.topic : q \in {p \in pool : of(p.topic) # {}}}}

\* _get_current_streak, lines 664-677: the values a call can return.
GetCurrentStreak(u, fails) ==
    IF fails THEN {0}
    ELSE {IF r = 0 THEN 0 ELSE progress[r].streak_days : r \in FirstOf(UserRows(u))}

\* _get_user_achievements, lines 679-698: latest first (a row's earned_date
\* grows with its id); the type stands for title, description and icon.
GetUserAchievements(u, fails) ==
    IF fails THEN <<>>
    ELSE LET mine == SelectSeq([i \in DOMAIN achievements |-> i],
                               LAMBDA i : achievements[i].user_id = u)
         IN [k \in DOMAIN mine |->
               [id |-> mine[Len(mine) + 1 - k],
                type |-> achievements[mine[Len(mine) + 1 - k]].achievement_type]]

\* Where an exception is raised during get_dashboard_data: in the queries of
\* lines 563-572, or inside one of the four helpers.
DashFaults == {"none", "totals", "activity", "topics", "streak", "achievements"}

\* get_dashboard_data, lines 547-596: the ways a call can end.
GetDashboardData(u, range, fault) ==
    IF fault = "totals" THEN {Raising} \* lines 563-572 are outside any try
    ELSE LET start == StartDate(range)
             total_attempts == Cardinality(InRange(u, start))
             correct_attempts == CountCorrect(InRange(u, start))
         IN {Returned([overall_score |-> Percent(correct_attempts, total_attempts),
                       total_questions |-> total_attempts,
                       correct_answers |-> correct_attempts,
                       recent_activity |-> GetRecentActivity(u, start, fault = "activity"),
                       topic_performance |-> GetTopicPerformance(u, start, fault = "topics"),
                       streak |-> st,
                       achievements |-> GetUserAchievements(u, fault = "achievements")]) :
               st \in GetCurrentStreak(u, fault = "streak")}

\* The database after user 2's first submission, one correct answer to
\* question 2 on day 0: the attempt, the topic row of line 435, the streak
\* row of line 474 and the first_quiz achievement.
InitDash ==
    /\ day = 0
    /\ attempts = <<[user_id |-> 2, question_id |-> 2, is_correct |-> TRUE, day |-> 0]>>
    /\ progress = <<[user_id |-> 2, topic |-> "general", total_questions |-> 1,
                     correct_answers |-> 1, streak_days |-> 0, best_streak |-> 0],
                    [user_id |-> 2, topic |-> "general", total_questions |-> 0,
                     correct_answers |-> 0, streak_days |-> 1, best_streak |-> 1]>>
    /\ achievements = <<[user_id |-> 2, achievement_type |-> "first_quiz"]>>
    /\ calls = 0
    /\ last = NoCall
    /\ sess = EmptySession
    /\ pc = "closed"
    /\ pool = SeedPool
    /\ resp = NoResponse
    /\ ret = NoReturn
    /\ NoDocuments /\ NoTransactions /\ NoRealtime

\* A submission of user 1 that answers a whole quiz, before the dashboard is
\* requested.
DashSubmit ==
    /\ ret = NoReturn
    /\ calls < MaxDashSubmits
    /\ \E answers \in {a \in WellFormedLists : Len(a) = questions_per_quiz} :
          \E pk \in Picks(1, answers), sp \in FirstOf(UserRows(1)) :
              Submit(1, answers, pk, sp, "none")

\* n days pass after a submission (two waits in a row are one longer wait).
Pass(n) ==
    /\ pc = "closed"
    /\ ret = NoReturn
    /\ last.op = "submit"
    /\ day' = day + n
    /\ last' = NoCall
    /\ UNCHANGED <<attempts, progress, achievements, calls, sess, pc>>
    /\ UNCHANGED <<reads, others>>

\* GET /api/dashboard (src/main.py).  A behaviour serves one request.
Dashboard(u, range, fault) ==
    /\ pc = "closed"
    /\ ret = NoReturn
    /\ \E o \in GetDashboardData(u, range, fault) :
          ret' = [op |-> "dashboard", user |-> u, range |-> range, fault |-> fault,
                  raised |-> o.exc, result |-> o.val]
    /\ UNCHANGED <<quiz, pool, resp, others>>

NextDash ==
    \/ DashSubmit
    \/ \E n \in Gaps : Pass(n)
    \/ \E u \in Users, range \in DashRanges : Dashboard(u, range, "none")
    \/ \E fault \in DashFaults : Dashboard(1, "week", fault)

SpecDash == InitDash /\ [][NextDash]_vars

(* ----------------------- overlapping submissions ----------------------- *)

\* Two requests run submit_quiz_results on two sessions over one database
\* (PostgreSQL, READ COMMITTED).  A request works on its session (lines
\* 375-396: the queries read what is committed, the changes stay in the
\* session) and then commits (line 399).

WrittenColumnIncrement(mine, loaded, stored) == stored + (mine - loaded)

\* The UPDATE the flush emits sets a changed column to the value the session
\* computed in memory from what it loaded; an unchanged column is not in it.
WrittenColumn(mine, loaded, stored) == IF mine # loaded THEN mine ELSE stored

\* The row after the UPDATE of one dirty object.
FlushRow(mine, loaded, stored) ==
    [stored EXCEPT
       !.total_questions = WrittenColumn(mine.total_questions, loaded.total_questions, @),
       !.correct_answers = WrittenColumn(mine.correct_answers, loaded.correct_answers, @),
       !.streak_days = WrittenColumn(mine.streak_days, loaded.streak_days, @),
       !.best_streak = WrittenColumn(mine.best_streak, loaded.best_streak, @)]

\* user_progress after the flush of request t: its UPDATEs, then its INSERTs.
ConcurrentFlush(t) ==
    [r \in DOMAIN progress |->
        IF r \in DOMAIN t.s.dirty THEN FlushRow(t.s.dirty[r], t.loaded[r], progress[r])
        ELSE progress[r]] \o t.s.prog

\* Rows whose total_questions the request overwrites although another
\* request changed it after this one had read it.
Overwritten(t) ==
    {r \in DOMAIN t.s.dirty :
        /\ t.s.dirty[r].total_questions # t.loaded[r].total_questions
        /\ progress[r].total_questions # t.loaded[r].total_questions}

\* Requests that have begun.
Begun == calls + Cardinality({j \in Sessions : txn[j].pc = "worked"})

\* Lines 375-396 on session i: the attempts, the progress update and the
\* achievement check, all against the committed tables.
TxWork(i, u, answers, pk, sp) ==
    /\ txn[i].pc = "idle"
    /\ Begun < MaxRequests
    /\ pk \in Picks(u, answers)
    /\ sp \in FirstOf(UserRows(u))
    /\ \E s1 \in {AddAttempts(EmptySession, u, answers)} :
       \E s2 \in {UpdateUserProgress(s1, u, answers, pk, sp, "none")} :
       \E s3 \in {CheckAchievements(s2, u, CorrectCount(answers), Len(answers))} :
          txn' = [txn EXCEPT ![i] = [pc |-> "worked", user |-> u, s |-> s3,
                                     loaded |-> progress, lost |-> {}]]
    /\ UNCHANGED <<quiz, reads, documents, realtime>>

\* Line 399 on session i: db.commit().
TxCommit(i) ==
    /\ txn[i].pc = "worked"
    /\ attempts' = attempts \o txn[i].s.att
    /\ progress' = ConcurrentFlush(txn[i])
    /\ achievements' = achievements \o txn[i].s.ach
    /\ calls' = calls + 1
    /\ txn' = [txn EXCEPT ![i].pc = "committed", ![i].lost = Overwritten(txn[i])]
    /\ UNCHANGED <<day, last, sess, pc, reads, documents, realtime>>

\* The request ends and its session is closed (src/database.py:41-42).
TxClose(i) ==
    /\ txn[i].pc = "committed"
    /\ txn' = [txn EXCEPT ![i] = IdleTxn]
    /\ UNCHANGED <<quiz, reads, documents, realtime>>

\* The database before any submission, or after user 1's first submission
\* (one correct answer to question 2, one day earlier).
InitConc ==
    /\ \/ /\ day = 0
          /\ attempts = <<>>
          /\ progress = <<>>
          /\ achievements = <<>>
       \/ /\ day = 1
          /\ attempts = <<[user_id |-> 1, question_id |-> 2, is_correct |-> TRUE,
                           day |-> 0]>>
          /\ progress = <<[user_id |-> 1, topic |-> "general", total_questions |-> 1,
                           correct_answers |-> 1, streak_days |-> 0, best_streak |-> 0],
                          [user_id |-> 1, topic |-> "general", total_questions |-> 0,
                           correct_answers |-> 0, streak_days |-> 1, best_streak |-> 1]>>
          /\ achievements = <<[user_id |-> 1, achievement_type |-> "first_quiz"]>>
    /\ calls = 0
    /\ last = NoCall
    /\ sess = EmptySession
    /\ pc = "closed"
    /\ pool = SeedPool
    /\ resp = NoResponse
    /\ ret = NoReturn
    /\ NoDocuments /\ NoTransactions /\ NoRealtime

NextConc ==
    \/ \E i \in Sessions :
          /\ txn[i].pc = "idle"
          /\ Begun < MaxRequests
          /\ \E u \in Users, answers \in WellFormedLists :
                \E pk \in Picks(u, answers), sp \in FirstOf(UserRows(u)) :
                    TxWork(i, u, answers, pk, sp)
    \/ \E i \in Sessions : TxCommit(i)
    \/ \E i \in Sessions : TxClose(i)

SpecConc == InitConc /\ [][NextConc]_vars

(* --------------------------- the connection manager -------------------- *)

\* Tasks run on one event loop and switch only where an await suspends: at
\* websocket.accept, websocket.send_text and websocket.receive_text.  A step
\* below is the code a task runs from one such await to the next.
\*
\* A dict is the sequence of its entries in insertion order; deleting a key
\* leaves a hole (key 0), as in CPython, where the table is repacked only
\* after more insertions than a behaviour makes.

\* users.role of the users (UserRole values, src/models.py:10-13); user 3
\* has no row.
RoleOf == (1 :> "student") @@ (2 :> "lecturer")

NoUserId == CHOOSE u \in {3} : u \notin DOMAIN RoleOf

\* The user ids clients put in /ws/{user_id}.
PathIds == DOMAIN RoleOf \cup {NoUserId}

\* The target_audience values of notify_new_announcement (lines 129-134).
Audiences == {"all", "students", "lecturers"}

Keys(d) == {d[i].key : i \in DOMAIN d} \ {0}

Slot(d, k) == CHOOSE i \in DOMAIN d : d[i].key = k

\* d[k]
Val(d, k) == d[Slot(d, k)].val

\* d[k] = v
Put(d, k, v) ==
    IF k \in Keys(d) THEN [d EXCEPT ![Slot(d, k)].val = v]
    ELSE Append(d, [key |-> k, val |-> v])

\* del d[k]; empty is what the hole holds.
Del(d, k, empty) == [d EXCEPT ![Slot(d, k)] = [key |-> 0, val |-> empty]]

Least(S) == CHOOSE x \in S : \A y \in S : x <= y

\* The websockets in the registry.
Registered == UNION {Val(active_connections, k) : k \in Keys(active_connections)}

\* The part of connect after the await of line 23 (lines 25-35).
Connect(reg, w, u, role) ==
    LET ac == IF u \in Keys(reg.ac) THEN reg.ac ELSE Put(reg.ac, u, {})
    IN [ac |-> Put(ac, u, Val(ac, u) \cup {w}), us |-> Put(reg.us, u, role)]

DisconnectNothing(reg, w, u) == reg

\* disconnect, lines 39-50.
Disconnect(reg, w, u) ==
    IF u \in Keys(reg.ac)
    THEN LET ac == Put(reg.ac, u, Val(reg.ac, u) \ {w})
         IN IF Val(ac, u) = {}
            THEN [ac |-> Del(ac, u, {}),
                  us |-> IF u \in Keys(reg.us) THEN Del(reg.us, u, "") ELSE reg.us]
            ELSE [ac |-> ac, us |-> reg.us]
    ELSE reg

Registry == [ac |-> active_connections, us |-> user_sessions]

\* The sender is suspended inside the loop of line 56 over the set of user u,
\* and the key u is deleted: the set object it iterates is now empty and no
\* longer the one in the dict.
Detach(sd, ac) ==
    IF sd.pc = "sending" /\ sd.user \notin Keys(ac) THEN [sd EXCEPT !.detached = TRUE] ELSE sd

\* A client opens /ws/{u}: lines 2108-2111, then connect up to the await of
\* line 23.  Websockets are numbered in the order they are opened.
Open(w, u) ==
    /\ socks[w].pc = "fresh"
    /\ \A v \in Sockets : v < w => socks[v].pc # "fresh"
    /\ socks' = [socks EXCEPT ![w] = [pc |-> IF u \in DOMAIN RoleOf THEN "accept"
                                             ELSE "rejected",
                                      user |-> u, client |-> "open", at |-> "none"]]
    /\ UNCHANGED <<active_connections, user_sessions, sender, delivered>>
    /\ UNCHANGED <<quiz, reads, documents, txn>>

\* The client goes away (the connection drops or is closed).
ClientGone(w) ==
    /\ socks[w].pc \in {"accept", "greet", "receive"}
    /\ socks[w].client = "open"
    /\ socks' = [socks EXCEPT ![w].client = "gone"]
    /\ UNCHANGED <<active_connections, user_sessions, sender, delivered>>
    /\ UNCHANGED <<quiz, reads, documents, txn>>

\* The handlers of lines 2137-2143 call disconnect and the endpoint ends; at
\* is the await at which it ended.
EndpointFails(w) ==
    \E reg \in {Disconnect(Registry, w, socks[w].user)} :
        /\ active_connections' = reg.ac
        /\ user_sessions' = reg.us
        /\ sender' = Detach(sender, reg.ac)
        /\ socks' = [socks EXCEPT ![w].pc = "done", ![w].at = socks[w].pc]
        /\ UNCHANGED delivered

\* The endpoint resumes from websocket.accept (line 23): the websocket is
\* registered and the endpoint runs to the send of line 2117; accept raises
\* when the client is gone.
Accepted(w) ==
    /\ socks[w].pc = "accept"
    /\ IF socks[w].client = "gone" THEN EndpointFails(w)
       ELSE \E reg \in {Connect(Registry, w, socks[w].user, RoleOf[socks[w].user])} :
               /\ active_connections' = reg.ac
               /\ user_sessions' = reg.us
               /\ socks' = [socks EXCEPT ![w].pc = "greet"]
               /\ UNCHANGED <<sender, delivered>>
    /\ UNCHANGED <<quiz, reads, documents, txn>>

\* The endpoint resumes from the sends of lines 2117-2129 and waits for a
\* message; a send raises when the client is gone, and get_unread_count can
\* raise (fails).
Greeted(w, fails) ==
    /\ socks[w].pc = "greet"
    /\ IF socks[w].client = "gone" \/ fails THEN EndpointFails(w)
       ELSE /\ socks' = [socks EXCEPT ![w].pc = "receive"]
            /\ UNCHANGED <<active_connections, user_sessions, sender, delivered>>
    /\ UNCHANGED <<quiz, reads, documents, txn>>

\* receive_text raises WebSocketDisconnect once the client is gone (lines
\* 2134-2139).  A message of a client that is there leaves the registry as
\* it is and the endpoint waiting again.
Received(w) ==
    /\ socks[w].pc = "receive"
    /\ socks[w].client = "gone"
    /\ EndpointFails(w)
    /\ UNCHANGED <<quiz, reads, documents, txn>>

\* The sender runs until its next await of send_text, until it returns or
\* until an exception leaves it.  sd.pc is "inner" at the for of line 56 and
\* "outer" at the for of line 68 or 93; an iterator raises RuntimeError when
\* the size of what it iterates has changed.  Returns the ways the run can
\* end, each with the registry it leaves.
\* The sender after it returned or raised: its loop variables are gone.
Ended(sd, how) ==
    [sd EXCEPT !.pc = how, !.pos = 1, !.outer = {}, !.user = 0, !.inner = {},
               !.seen = {}, !.failed = {}, !.detached = FALSE, !.cur = 0]

RECURSIVE Run(_, _)
Run(sd, ac) ==
    IF sd.pc = "inner"
    THEN IF sd.detached \/ Cardinality(Val(ac, sd.user)) # Cardinality(sd.inner)
         THEN {[s |-> Ended(sd, "raised"), ac |-> ac]}
         ELSE LET rest == Val(ac, sd.user) \ sd.seen
              IN IF rest = {} \* lines 63-64
                 THEN Run([sd EXCEPT !.pc = "outer"],
                          Put(ac, sd.user, Val(ac, sd.user) \ sd.failed))
                 ELSE {[s |-> [sd EXCEPT !.pc = "sending", !.cur = w, !.seen = @ \cup {w}],
                        ac |-> ac] : w \in rest}
    ELSE LET d == IF sd.kind = "role" THEN user_sessions ELSE ac
         IN IF Cardinality(Keys(d)) # Cardinality(sd.outer)
            THEN {[s |-> Ended(sd, "raised"), ac |-> ac]}
            ELSE LET next == {i \in DOMAIN d : i >= sd.pos /\ d[i].key # 0}
                 IN IF next = {} THEN {[s |-> Ended(sd, "finished"), ac |-> ac]}
                    ELSE LET i == Least(next)
                             k == d[i].key
                         IN IF /\ sd.kind = "role" => d[i].val = sd.role \* line 69
                               /\ k \in Keys(ac) \* line 54
                            THEN Run([sd EXCEPT !.pc = "inner", !.pos = i + 1,
                                                !.user = k, !.inner = Val(ac, k),
                                                !.seen = {}, !.failed = {},
                                                !.detached = FALSE], ac)
                            ELSE Run([sd EXCEPT !.pos = i + 1], ac)

\* notify_new_announcement(data, audience), lines 120-134, up to its first
\* await of send_text: broadcast (line 93) iterates active_connections,
\* send_to_role (line 68) iterates user_sessions.items().  A behaviour sends
\* one announcement.
Notify(audience) ==
    /\ sender.pc = "none"
    /\ \E o \in Run([pc |-> "outer", audience |-> audience,
                     kind |-> IF audience = "all" THEN "all" ELSE "role",
                     role |-> audience, pos |-> 1,
                     outer |-> IF audience = "all" THEN Keys(active_connections)
                               ELSE Keys(user_sessions),
                     user |-> 0, inner |-> {}, seen |-> {}, failed |-> {},
                     detached |-> FALSE, cur |-> 0],
                    active_connections) :
          /\ sender' = o.s
          /\ active_connections' = o.ac
    /\ UNCHANGED <<user_sessions, socks, delivered>>
    /\ UNCHANGED <<quiz, reads, documents, txn>>

\* The sender resumes from send_text (lines 57-60): the message reached the
\* client, or the send raised because the connection is closed and the
\* websocket is noted for removal; then the sender runs on.
SendDone ==
    /\ sender.pc = "sending"
    /\ \E ok \in {socks[sender.cur].client = "open" /\ socks[sender.cur].pc # "done"} :
          /\ delivered' = IF ok THEN delivered \cup {sender.cur} ELSE delivered
          /\ \E o \in Run([sender EXCEPT !.pc = "inner",
                                         !.failed = IF ok THEN @ ELSE @ \cup {sender.cur}],
                          active_connections) :
                /\ sender' = o.s
                /\ active_connections' = o.ac
    /\ UNCHANGED <<user_sessions, socks>>
    /\ UNCHANGED <<quiz, reads, documents, txn>>

Endpoint(w) == Accepted(w) \/ (\E fails \in BOOLEAN : Greeted(w, fails)) \/ Received(w)

NextRealtime ==
    \/ \E w \in Sockets, u \in PathIds : Open(w, u)
    \/ \E w \in Sockets : ClientGone(w)
    \/ \E w \in Sockets : Accepted(w)
    \/ \E w \in Sockets, fails \in BOOLEAN : Greeted(w, fails)
    \/ \E w \in Sockets : Received(w)
    \/ \E audience \in Audiences : Notify(audience)
    \/ SendDone

SpecRealtime == Init /\ [][NextRealtime]_vars

\* The endpoints alone, with no announcement sent: the event loop resumes
\* every endpoint whose await has completed.
NextEndpoints ==
    \/ \E w \in Sockets, u \in PathIds : Open(w, u)
    \/ \E w \in Sockets : ClientGone(w)
    \/ \E w \in Sockets : Accepted(w)
    \/ \E w \in Sockets, fails \in BOOLEAN : Greeted(w, fails)
    \/ \E w \in Sockets : Received(w)

SpecEndpointsFair ==
    /\ Init
    /\ [][NextEndpoints]_vars
    /\ \A w \in Sockets : WF_vars(Endpoint(w))

(* ------------------------------ properties ----------------------------- *)

AchCount(u, t) ==
    Cardinality({i \in DOMAIN achievements :
                   achievements[i].user_id = u /\ achievements[i].achievement_type = t})

Holds(ach, u, t) ==
    \E i \in DOMAIN ach : ach[i].user_id = u /\ ach[i].achievement_type = t

\* A step that is a committed call of submit_quiz_results.
Submitted == last'.op = "submit" /\ ~last'.raised /\ calls' = calls + 1

\* C1: after any sequence of completed submissions there is at most one
\* Achievement row for each (user_id, achievement_type).
C1_OneAchievementPerType ==
    \A u \in Users, t \in AchievementTypes : AchCount(u, t) <= 1

\* A submission that earned perfect_score again found the row of an
\* earlier submission and inserted nothing.
C1_Witness ==
    /\ last.op = "submit" /\ ~last.raised
    /\ "perfect_score" \in last.skipped
    /\ AchCount(last.user, "perfect_score") = 1

\* C2: two calls of the achievement checker for the same user with a
\* qualifying submission, inside one unit of work, leave exactly one
\* perfect_score row for the user once the work is committed.
C2_TwoChecksOneRow ==
    (last.op = "committed" /\ last.qualifying >= 2)
        => AchCount(last.user, "perfect_score") = 1

\* C3: there is at most one user_progress row per (user_id, topic).
C3_OneRowPerUserTopic ==
    \A u \in Users, t \in Topics : Cardinality(ProgressMatches(u, t)) <= 1

\* C4: a submission whose attempts are committed had none of its progress,
\* streak or achievement steps cut short by an error: the user has a
\* progress row for every topic answered and no exception was swallowed.
C4_AllOrNothing ==
    (last.op = "submit" /\ ~last.raised)
        => /\ last.fault = "none"
           /\ \A t \in last.topics : ProgressMatches(last.user, t) # {}

\* C5: a submission applies exactly one transition to the user's streak
\* record (the row the updater's query returned, or the row it created):
\* streak_days becomes the previous value plus 1 when the user has an
\* Attempt dated yesterday and 1 otherwise; no other row's streak changes.
C5_StreakTransition ==
    [][Submitted =>
        LET u == last'.user
            r == last'.streakRow
            prev == IF r \in DOMAIN progress THEN progress[r].streak_days ELSE 0
        IN /\ r \in DOMAIN progress'
           /\ progress'[r].user_id = u
           /\ progress'[r].streak_days = (IF YesterdayActivity(u) THEN prev + 1 ELSE 1)
           /\ \A q \in DOMAIN progress' \ {r} :
                 progress'[q].streak_days =
                    (IF q \in DOMAIN progress THEN progress[q].streak_days ELSE 0)]_vars

\* A submission of the day after an earlier one raised the streak to 2.
C5_Witness ==
    /\ last.op = "submit" /\ ~last.raised
    /\ last.streakRow \in DOMAIN progress
    /\ progress[last.streakRow].streak_days = 2
    /\ YesterdayActivity(last.user)

\* C6: streak_days counts consecutive calendar days with an Attempt, so it
\* never exceeds the number of distinct days on which the user has Attempts
\* (several submissions on one day raise it by one only).
C6_StreakCountsDays ==
    \A r \in DOMAIN progress :
        progress[r].streak_days <=
            Cardinality({attempts[i].day : i \in {j \in DOMAIN attempts :
                            attempts[j].user_id = progress[r].user_id}})

\* C7: after a user's first-ever submission is committed, whichever row the
\* streak query returns for the user has streak_days = best_streak = 1.
C7_FirstSubmissionStreakOne ==
    (last.op = "submit" /\ ~last.raised /\ last.firstEver)
        => \A r \in UserRows(last.user) :
               progress[r].streak_days = 1 /\ progress[r].best_streak = 1

\* C8: best_streak of every user_progress row never decreases, and no row
\* is ever removed or handed to another user.
C8_BestStreakMonotone ==
    [][\A r \in DOMAIN progress :
          /\ r \in DOMAIN progress'
          /\ progress'[r].user_id = progress[r].user_id
          /\ progress'[r].best_streak >= progress[r].best_streak]_vars

\* A streak that had reached 2 was reset to 1 and best_streak kept the 2.
C8_Witness ==
    \E r \in DOMAIN progress :
        progress[r].best_streak >= 2 /\ progress[r].streak_days = 1

\* C9: every user_progress row has correct_answers <= total_questions.
C9_CorrectAtMostTotal ==
    \A r \in DOMAIN progress :
        progress[r].correct_answers <= progress[r].total_questions

\* A row that accumulated two submissions, with wrong answers among them.
C9_Witness ==
    \E r \in DOMAIN progress :
        /\ progress[r].total_questions > questions_per_quiz
        /\ progress[r].correct_answers > 0
        /\ progress[r].correct_answers < progress[r].total_questions

\* C10: a committed submission of a user who does not hold perfect_score
\* leaves the user holding it exactly when correct_count = total_count and
\* total_count >= 5.
C10_PerfectScoreRule ==
    [][(Submitted /\ ~Holds(achievements, last'.user, "perfect_score"))
          => (Holds(achievements', last'.user, "perfect_score")
                <=> (last'.correct = last'.total /\ last'.total >= 5))]_vars

\* A submission of 5 correct answers out of 5 was awarded perfect_score.
C10_Witness ==
    /\ last.op = "submit" /\ ~last.raised
    /\ last.correct = 5 /\ last.total = 5
    /\ "perfect_score" \notin last.skipped
    /\ AchCount(last.user, "perfect_score") = 1

\* C11: a committed submission of a user who had at least one Attempt
\* before it and holds no first_quiz row does not award first_quiz (the
\* award goes only to a user with no earlier Attempt).
C11_FirstQuizOnlyFirst ==
    [][(Submitted /\ PreviousAttempts(last'.user) > 0
                 /\ ~Holds(achievements, last'.user, "first_quiz"))
          => ~Holds(achievements', last'.user, "first_quiz")]_vars

\* C12: attempts are append-only and one per answer: every step keeps the
\* stored attempts as a prefix of the table, and a committed submission of
\* n answers adds exactly n attempts, all of the submitting user.
C12_AttemptsAppendOnly ==
    [][/\ Len(attempts') >= Len(attempts)
       /\ SubSeq(attempts', 1, Len(attempts)) = attempts
       /\ Submitted =>
             /\ Len(attempts') = Len(attempts) + last'.total
             /\ \A i \in (Len(attempts) + 1)..Len(attempts') :
                   attempts'[i].user_id = last'.user]_vars

\* A submission with a wrong answer among its 5 was committed after an
\* earlier one: the table holds the attempts of both.
C12_Witness ==
    /\ last.op = "submit" /\ ~last.raised
    /\ last.total = questions_per_quiz /\ last.correct < last.total
    /\ Len(attempts) > last.total
    /\ \E i \in DOMAIN attempts : ~attempts[i].is_correct

\* C13: a submission holding an answer whose question_id resolves to no
\* Question succeeds: nothing is raised and that answer is stored as an
\* Attempt of the user.
C13_UnknownQuestionRecorded ==
    (last.op = "submit" /\ last.fault = "none" /\ last.unresolved > 0)
        => /\ ~last.raised
           /\ \E i \in DOMAIN attempts :
                 /\ attempts[i].user_id = last.user
                 /\ attempts[i].question_id \notin DOMAIN QuestionTopic

\* What the questions table and the attempts say about user u and topic t.
TopicTotal(u, t) ==
    Cardinality({i \in DOMAIN attempts :
        /\ attempts[i].user_id = u
        /\ attempts[i].question_id \in DOMAIN QuestionTopic
        /\ QuestionTopic[attempts[i].question_id] = t})

TopicCorrect(u, t) ==
    Cardinality({i \in DOMAIN attempts :
        /\ attempts[i].user_id = u /\ attempts[i].is_correct
        /\ attempts[i].question_id \in DOMAIN QuestionTopic
        /\ QuestionTopic[attempts[i].question_id] = t})

\* At least 3 attempts and accuracy strictly below 0.70.
Qualifies(u, t) ==
    TopicTotal(u, t) >= 3 /\ 10 * TopicCorrect(u, t) < 7 * TopicTotal(u, t)

\* Topic a is at most as accurate as topic b for user u.
NoMoreAccurate(u, a, b) ==
    TopicCorrect(u, a) * TopicTotal(u, b) <= TopicCorrect(u, b) * TopicTotal(u, a)

C17_WorstTopicsFirst ==
    ret.op = "weak" =>
        LET u == ret.user
            Q == {t \in Topics : Qualifies(u, t)}
            r == ret.result
        IN /\ Len(r) = (IF Cardinality(Q) < ret.limit THEN Cardinality(Q) ELSE ret.limit)
           /\ \A i \in DOMAIN r : r[i] \in Q
           /\ \A i, j \in DOMAIN r : i < j => r[i] # r[j] /\ NoMoreAccurate(u, r[i], r[j])
           /\ Q # {} => r # <<>> /\ \A t \in Q : NoMoreAccurate(u, r[1], t)

\* The questions a quiz may draw from under a difficulty argument.
Available(difficulty) == {q \in pool : difficulty = "" \/ q.difficulty = difficulty}

\* r is a sample of up to 5 of the available questions: min(5, available)
\* items, pairwise distinct ids, each the id of an available question.
IsSampleOfFive(r, difficulty) ==
    /\ Len(r) = (IF Cardinality(Available(difficulty)) < 5
                 THEN Cardinality(Available(difficulty)) ELSE 5)
    /\ \A i, j \in DOMAIN r : i # j => r[i].id # r[j].id
    /\ \A i \in DOMAIN r : \E q \in Available(difficulty) : q.id = r[i].id

\* C14: generate_adaptive_quiz returns exactly min(5, available_questions)
\* items with pairwise distinct question ids, available_questions counting
\* the questions of the pool that match the difficulty filter.
C14_QuizSizeAndDistinct ==
    (ret.op = "quiz" /\ ret.fault = "none")
        => ~ret.raised /\ IsSampleOfFive(ret.result, ret.difficulty)

\* With a pool of 2 questions the quiz has exactly 2 items.
C14_Witness ==
    /\ ret.op = "quiz" /\ ret.fault = "none" /\ ret.difficulty = ""
    /\ Cardinality(pool) = 2
    /\ Len(ret.result) = 2

PassesValidation(e) ==
    /\ e.isDict
    /\ {"question_text", "options", "correct_answer", "topic"} \subseteq DOMAIN e.data
    /\ e.data.options.type = "list" /\ Len(e.data.options.items) >= 2
    /\ e.data.question_text # "" /\ e.data.correct_answer # ""

\* The first 5 elements that pass validation, in their original order.
Survivors(items) ==
    LET ok == SelectSeq(items, PassesValidation)
    IN SubSeq(ok, 1, IF Len(ok) < 5 THEN Len(ok) ELSE 5)

\* The four fields of a question or of an element's object.
FourFields(q) ==
    [question_text |-> q.question_text, options |-> q.options,
     correct_answer |-> q.correct_answer, topic |-> q.topic]

Ids(r) == [i \in DOMAIN r |-> r[i].id]

\* C18: for a parsed array with at least one element passing validation,
\* the synthesizer returns exactly the elements that pass validation, in
\* original order, cut to the first 5 of them.
C18_ValidElementsSurvive ==
    (ret.op = "ai" /\ resp.kind = "array" /\ Survivors(resp.items) # <<>>)
        => [i \in DOMAIN ret.result |-> FourFields(ret.result[i])]
             = [i \in DOMAIN Survivors(resp.items) |->
                  FourFields(Survivors(resp.items)[i].data)]

\* C19: when the AI call returns an unusable payload (empty text, no
\* bracketed array, invalid JSON, a value that is not an array, or an array
\* with no element passing validation) the synthesizer returns the fixed
\* list of 3 generic questions.
C19_UnusablePayloadFallback ==
    (/\ ret.op = "ai"
     /\ \/ resp.kind \in {"empty", "prose", "object", "badjson"}
        \/ resp.kind = "array" /\ Survivors(resp.items) = <<>>)
        => Ids(ret.result) = <<"content_fallback_1", "content_fallback_2",
                               "content_fallback_3">>

\* C20: when the AI call raises, the synthesizer returns the fallback list
\* of exactly 1 question.
C20_RaisingCallFallback ==
    (ret.op = "ai" /\ resp.kind = "raises")
        => Len(ret.result) = 1 /\ Ids(ret.result) = <<"fallback_1">>

\* C21: a document-backed quiz request always returns a question list, never
\* raises, and calls the AI service at most once.
C21_PdfQuizNeverRaises ==
    ret.op = "pdf" => /\ ~ret.raised
                      /\ DOMAIN ret.result = 1..Len(ret.result)
                      /\ ai_calls <= 1

\* The AI service raised on the one call made, and the request was answered.
C21_Witness ==
    /\ ret.op = "pdf" /\ ret.fault = "none"
    /\ resp.kind = "raises"
    /\ ai_calls = 1
    /\ ~ret.raised /\ ret.result = ContentBasedFallback

\* The lookback the dashboard is specified to have, in days.
ClaimedDays(range) ==
    IF range = "month" THEN 30 ELSE IF range = "year" THEN 365 ELSE 7

\* The user's attempts inside the lookback window of today.
Inside(u, range) ==
    {i \in DOMAIN attempts :
        attempts[i].user_id = u /\ day - attempts[i].day <= ClaimedDays(range)}

\* The topic of the question an attempt answered, as the dashboard shows it.
ShownTopic(i) == Title(QuestionTopic[attempts[i].question_id])

\* C22: the dashboard counts exactly the attempts inside the lookback window
\* (week 7 days, month 30, year 365, anything else 7): an attempt before the
\* window start is in none of total_questions, correct_answers,
\* recent_activity and topic_performance, and an attempt inside is in all.
C22_DashboardWindow ==
    (ret.op = "dashboard" /\ ret.fault = "none") =>
        LET u == ret.user
            in == Inside(u, ret.range)
            d == ret.result
        IN /\ ~ret.raised
           /\ d.total_questions = Cardinality(in)
           /\ d.correct_answers = Cardinality({i \in in : attempts[i].is_correct})
           /\ {d.recent_activity[k].date : k \in DOMAIN d.recent_activity}
                 = {attempts[i].day : i \in in}
           /\ {<<e.topic, e.total>> : e \in d.topic_performance}
                 = {<<ShownTopic(i),
                      Cardinality({j \in in : ShownTopic(j) = ShownTopic(i)})>> : i \in in}

\* A weekly dashboard of a user with an attempt 8 days old and one 2 days old.
C22_Witness ==
    /\ ret.op = "dashboard" /\ ret.fault = "none" /\ ret.range = "week"
    /\ \E i, j \in DOMAIN attempts :
          /\ attempts[i].user_id = ret.user /\ attempts[i].day = day - 8
          /\ attempts[j].user_id = ret.user /\ attempts[j].day = day - 2
    /\ Len(ret.result.recent_activity) = 1
    /\ ret.result.recent_activity[1].date = day - 2

\* C23: a failure while computing any one sub-aggregate of the dashboard is
\* replaced by an empty or zero default, and the dashboard is returned.
C23_DashboardSurvivesFailure ==
    ret.op = "dashboard" => ~ret.raised

\* The committed attempts of the user of progress row r on the row's topic.
AttemptsOn(r) ==
    Cardinality({i \in DOMAIN attempts :
                   /\ attempts[i].user_id = progress[r].user_id
                   /\ QuestionTopic[attempts[i].question_id] = progress[r].topic})

\* C24: two overlapping submissions of one user on one topic can lose an
\* update: when a request commits a total it computed from a count that
\* another request has changed in the meantime, the row's total_questions
\* ends up smaller than the number of the user's committed attempts on the
\* topic.
C24_LostUpdate ==
    \A i \in Sessions :
        txn[i].pc = "committed" =>
            \A r \in txn[i].lost : progress[r].total_questions < AttemptsOn(r)

\* Both submissions of user 1 have committed and an update is lost.
C24_Witness ==
    /\ \A i \in Sessions : txn[i].pc = "committed" /\ txn[i].user = 1
    /\ \E i \in Sessions : \E r \in txn[i].lost :
          /\ progress[r].user_id = 1
          /\ progress[r].total_questions < AttemptsOn(r)

\* C25: after two overlapping submissions of a user have both committed,
\* there is at most one achievement row per user and type.
C25_OverlapOneAchievement ==
    (\A i \in Sessions : txn[i].pc = "committed") =>
        \A u \in Users, t \in AchievementTypes : AchCount(u, t) <= 1

\* C26: while a sender is suspended at an await inside a loop, the set and
\* the dictionary it iterates are what they were when the loop began: no
\* connect or disconnect changes them.
C26_NoChangeUnderIteration ==
    sender.pc = "sending" =>
        /\ ~sender.detached
        /\ Val(active_connections, sender.user) = sender.inner
        /\ Keys(IF sender.kind = "role" THEN user_sessions ELSE active_connections)
              = sender.outer

\* C27: every user reported online has a websocket in active_connections, and
\* active_connections and user_sessions hold the same user ids.
C27_OnlineHasSocket ==
    /\ Keys(active_connections) = Keys(user_sessions)
    /\ \A u \in Keys(user_sessions) : Val(active_connections, u) # {}

\* A websocket is out of the registry once its endpoint has ended, and one
\* opened for a user id that does not exist was never put in.
EndedUnregistered ==
    \A w \in Sockets : socks[w].pc \in {"rejected", "done"} => w \notin Registered

\* C28: a websocket the endpoint registered is out of the registry when the
\* endpoint has ended, it is eventually removed once its client is gone, and
\* a websocket opened for a user id that does not exist is never registered.
C28_RegisteredEventuallyRemoved ==
    /\ []EndedUnregistered
    /\ \A w \in Sockets :
          (w \in Registered /\ socks[w].client = "gone") ~> (w \notin Registered)

\* A websocket whose endpoint ended at receive_text after its client went
\* away is out of the registry, while another of the same user is still in.
C28_Witness ==
    \E w, v \in Sockets :
        /\ socks[w].pc = "done" /\ socks[w].at = "receive" /\ socks[w].client = "gone"
        /\ w \notin Registered
        /\ v \in Registered /\ socks[v].user = socks[w].user

\* The users.role value an audience names.
AudienceRole(audience) == IF audience = "students" THEN "student" ELSE "lecturer"

\* C29: an announcement for 'students' (resp. 'lecturers') reaches every
\* connected websocket of a student (resp. lecturer), and no websocket of a
\* user of another role: a call that returns without having sent anything
\* had no connected student (lecturer) to send to, and whoever received the
\* announcement has the role.
C29_AnnouncementReachesRole ==
    [][(sender.pc = "none" /\ sender'.pc = "finished"
            /\ sender'.audience \in {"students", "lecturers"})
         => /\ \A w \in Registered :
                 ~(socks[w].client = "open"
                     /\ RoleOf[socks[w].user] = AudienceRole(sender'.audience))
            /\ \A w \in delivered' :
                 RoleOf[socks[w].user] = AudienceRole(sender'.audience)]_vars

\* C30: in every state reached by a sequence of submissions, every
\* user_progress row satisfies best_streak >= streak_days >= 0.
C30_StreakOrder ==
    \A r \in DOMAIN progress :
        /\ progress[r].best_streak >= progress[r].streak_days
        /\ progress[r].streak_days >= 0

\* After a reset one row holds a best_streak above its running streak,
\* while a topic row still holds the column defaults 0 and 0.
C30_Witness ==
    \E r, q \in DOMAIN progress :
        /\ progress[r].streak_days >= 1
        /\ progress[r].best_streak > progress[r].streak_days
        /\ progress[q].streak_days = 0
        /\ progress[q].best_streak = 0

============================================================================
